---- MODULE Spec2Model ----
(***************************************************************************)
(* folder_to_text (src/src/main.rs): the paths given on the command line   *)
(* are visited in order, directories are walked recursively (skipping      *)
(* every entry with a ".git" component), and every file whose leading      *)
(* sample is classified as text is appended to output.txt, wrapped in      *)
(* a pair of tags that carry its display path.                             *)
(*                                                                         *)
(* A path is the sequence of its components ("/" is the root component).   *)
(* The output document is the sequence of the writes made to it; the       *)
(* bytes of the file are Flatten of that sequence.                         *)
(***************************************************************************)
EXTENDS Integers, Sequences, FiniteSets, TLC

\* ------------------------------------------------------------------ bounds
MaxArgs == 2
MaxRuns == 2
MaxEnvFailures == 1

\* --------------------------------------------------------------- constants
BufSize == 512

VARIABLES
    args,        \* the command line (without the program name)
    aattr,       \* what a.txt holds: one of FileKinds
    outFile,     \* output.txt: [exists, data]
    pc,          \* "start" | "args" | "walk" | "done"
    argi,        \* index of the argument the for loop of main is at
    stack,       \* the walker's stack of directory listings still to yield
    exit,        \* exit status, -1 while running
    stderr,      \* diagnostic lines of this run
    stdout,      \* standard output lines of this run
    created,     \* File::create succeeded in this run
    envFails,    \* failures of the environment so far: File::create,
                 \* current_dir() or a write to output.txt
    run,         \* which run of the program this is
    docBefore    \* output.txt as it was when this run started

vars == <<args, aattr, outFile, pc, argi, stack, exit, stderr, stdout,
          created, envFails, run, docBefore>>

\* ------------------------------------------------------------------- paths
cwd == <<"/", "w">>
output_file == <<"output.txt">>
excluded_dirs == {".git"}

IsAbsolute(p) == Len(p) > 0 /\ p[1] = "/"

RECURSIVE Normalize(_, _)
\* the location the operating system resolves a path to: "." dropped,
\* ".." steps to the parent
Normalize(acc, rest) ==
    IF rest = <<>> THEN acc
    ELSE LET c == Head(rest) IN
         IF c = "." THEN Normalize(acc, Tail(rest))
         ELSE IF c = ".."
              THEN Normalize(IF Len(acc) > 1 THEN SubSeq(acc, 1, Len(acc) - 1) ELSE acc,
                             Tail(rest))
              ELSE Normalize(Append(acc, c), Tail(rest))

Resolve(p) ==
    IF IsAbsolute(p) THEN Normalize(<<"/">>, Tail(p)) ELSE Normalize(cwd, p)

StartsWith(p, q) == Len(p) >= Len(q) /\ SubSeq(p, 1, Len(q)) = q

\* Path::strip_prefix compares components, without resolving anything
strip_prefix(p, base) ==
    IF StartsWith(p, base)
    THEN [ok |-> TRUE, path |-> SubSeq(p, Len(base) + 1, Len(p))]
    ELSE [ok |-> FALSE, path |-> p]

display_path_unstripped(file_path) == file_path
\* relative_path of process_file
display_path(file_path) ==
    LET r == strip_prefix(file_path, cwd) IN
    IF r.ok THEN r.path ELSE file_path

is_excluded_never(p) == FALSE
is_excluded(p) == \E i \in 1..Len(p) : p[i] \in excluded_dirs

\* ------------------------------------------------------------- file system
OutLoc == cwd \o output_file
ALoc == cwd \o <<"a.txt">>

GitFile == cwd \o <<"sub", ".git", "c">>
OutsideFile == <<"/", "x", ".git", "c">>

DirLocs ==
    { <<"/">>, cwd, cwd \o <<"sub">>, cwd \o <<"sub", ".git">>, <<"/", "x">>,
      <<"/", "x", ".git">> }
StaticFileLocs == { ALoc, GitFile, OutsideFile }
OtherLocs == { <<"/", "x", "dev">> }

FileLocs(out) == StaticFileLocs \cup (IF out.exists THEN {OutLoc} ELSE {})
Nodes(out) == DirLocs \cup FileLocs(out) \cup OtherLocs

exists(p, out) == Resolve(p) \in Nodes(out)
is_dir(p) == Resolve(p) \in DirLocs
is_file(p, out) == Resolve(p) \in FileLocs(out)

\* the entries read_dir yields for a directory, as WalkDir names them
Children(p, out) ==
    { Append(p, n[Len(n)]) : n \in { m \in Nodes(out) :
          /\ Len(m) = Len(Resolve(p)) + 1
          /\ StartsWith(m, Resolve(p)) } }

\* ------------------------------------------------------------ file content
Data(n) == [t |-> "data", label |-> <<>>, v |-> n]
OpenLine(l) == [t |-> "open", label |-> l, v |-> 0]
CloseLine(l) == [t |-> "close", label |-> l, v |-> 0]
BlankLine == [t |-> "blank", label |-> <<>>, v |-> 0]
\* what a failed write left of its line, possibly nothing
PartialLine(l) == [t |-> "partial", label |-> l, v |-> 0]

\* what a file holds: whether it opens and reads, its size, its byte order
\* mark, the offset of its first NUL byte and of its first byte that is not
\* valid UTF-8 (0: none)
Kind(o, r, s, b, z, i) ==
    [open |-> o, read |-> r, size |-> s, bom |-> b, nulAt |-> z, invalidAt |-> i]
PlainKind == Kind(TRUE, TRUE, 700, "none", 0, 0)
BomKind == Kind(TRUE, TRUE, 700, "utf8", 0, 0)
LateNulKind == Kind(TRUE, TRUE, 700, "none", 600, 0)
FileKinds ==
    { PlainKind,
      Kind(TRUE, TRUE, 700, "utf16le", 0, 1),
      Kind(TRUE, TRUE, 700, "utf16be", 0, 1),
      Kind(TRUE, TRUE, 700, "none", 10, 0),
      Kind(TRUE, TRUE, 700, "none", 0, 600),
      Kind(FALSE, TRUE, 700, "none", 0, 0),
      Kind(TRUE, FALSE, 700, "none", 0, 0) }

\* a.txt holds what the run is given; the other files are fixed
Attr(loc, a) ==
    CASE loc = ALoc -> a
      [] loc = OutsideFile -> BomKind
      [] loc = GitFile -> LateNulKind
      [] loc \in OtherLocs -> Kind(TRUE, TRUE, 700, "none", 1, 0)
      [] OTHER -> PlainKind

FileId(loc) ==
    CASE loc = ALoc -> 1
      [] loc = GitFile -> 2
      [] loc = OutsideFile -> 3
      [] OTHER -> 4

\* ------------------------------------------------------ the output document
\* one write to output.txt; arg and path record which argument and which
\* call of process_file made it (they are not bytes of the file)
Write(k, l, b, ai, p) == [kind |-> k, label |-> l, body |-> b, arg |-> ai, path |-> p]
StaleWrite == Write("stale", <<>>, <<Data(0)>>, 0, <<>>)

WriteLines(w) ==
    CASE w.kind = "open" -> <<OpenLine(w.label)>>
      [] w.kind = "content" -> w.body
      [] w.kind = "close" -> <<CloseLine(w.label), BlankLine>>
      [] w.kind = "partial" -> <<PartialLine(w.label)>>
      [] OTHER -> w.body

RECURSIVE Flatten(_)
\* the lines of output.txt
Flatten(data) ==
    IF data = <<>> THEN <<>> ELSE WriteLines(Head(data)) \o Flatten(Tail(data))

\* fs::read_to_string's result for a file that decodes
Content(loc, data) == IF loc = OutLoc THEN Flatten(data) ELSE <<Data(FileId(loc))>>

\* what process_file finds in a file. output.txt holds what the run wrote
\* so far: tags and decoded contents, which are UTF-8 and start with "<"
AttrOf(loc, a) == IF loc = OutLoc THEN PlainKind ELSE Attr(loc, a)

\* ---------------------------------------------------------- classification
Min(a, b) == IF a < b THEN a ELSE b

\* n of process_file: the bytes the first read returns
SampleLen(k) == Min(k.size, BufSize)

\* content_inspector::inspect on the first n bytes: a byte order mark
\* decides, then a NUL byte makes the sample binary
inspect(k, n) ==
    IF n >= 3 /\ k.bom = "utf8" THEN "UTF_8_BOM"
    ELSE IF n >= 4 /\ k.bom = "utf32le" THEN "UTF_32LE"
    ELSE IF n >= 4 /\ k.bom = "utf32be" THEN "UTF_32BE"
    ELSE IF n >= 2 /\ k.bom = "utf16le" THEN "UTF_16LE"
    ELSE IF n >= 2 /\ k.bom = "utf16be" THEN "UTF_16BE"
    ELSE IF k.nulAt > 0 /\ k.nulAt <= n THEN "BINARY"
    ELSE "UTF_8"

is_text(content_type) ==
    content_type \in {"UTF_8", "UTF_8_BOM", "UTF_16LE", "UTF_16BE"}

\* fs::read_to_string succeeds: every byte of the file is valid UTF-8
Decodes(k) == k.invalidAt = 0

\* ------------------------------------------------------------ process_file
Diag(m, p) == [msg |-> m, path |-> p]

\* what the environment does to one call of process_file
EnvOk == [kind |-> "ok", at |-> 0]
EnvOutcomes ==
    {EnvOk, [kind |-> "cwd", at |-> 0]} \cup [kind : {"write"}, at : 1..3]

Result(d, g, e, f) == [data |-> d, diag |-> g, err |-> e, envfail |-> f]

\* the three writeln! of process_file
BlockWrites(label, content, ai, p) ==
    << Write("open", label, <<>>, ai, p),
       Write("content", label, content, ai, p),
       Write("close", label, <<>>, ai, p) >>

WriteBlock_DropsClose(data, ws, env, p) ==
    IF env.kind = "write"
    THEN Result(data \o SubSeq(ws, 1, env.at - 1)
                     \o <<Write("partial", ws[env.at].label, <<>>, ws[env.at].arg, p)>>,
                <<Diag("write_error", <<>>)>>, FALSE, TRUE)
    ELSE Result(data \o SubSeq(ws, 1, 2), <<>>, FALSE, FALSE)

WriteBlock_KeepsWriting(data, ws, env, p) ==
    IF env.kind = "write"
    THEN Result(data \o SubSeq(ws, 1, env.at - 1)
                     \o <<Write("partial", ws[env.at].label, <<>>, ws[env.at].arg, p)>>
                     \o SubSeq(ws, env.at + 1, 3),
                <<Diag("write_error", <<>>)>>, FALSE, TRUE)
    ELSE Result(data \o ws, <<>>, FALSE, FALSE)

\* the writes in order until one fails; the failed write_fmt leaves the part
\* of its line, possibly none of it, that it wrote before the error
WriteBlock(data, ws, env, p) ==
    IF env.kind = "write"
    THEN Result(data \o SubSeq(ws, 1, env.at - 1)
                     \o <<Write("partial", ws[env.at].label, <<>>, ws[env.at].arg, p)>>,
                <<Diag("write_error", <<>>)>>, FALSE, TRUE)
    ELSE Result(data \o ws, <<>>, FALSE, FALSE)

process_file_tag_first(file_path, data, ai, env, a) ==
    LET loc == Resolve(file_path)
        k == AttrOf(loc, a)
        label == display_path(file_path)
    IN  IF ~k.open THEN Result(data, <<Diag("open_error", file_path)>>, FALSE, FALSE)
        ELSE IF ~k.read THEN Result(data, <<Diag("read_error", file_path)>>, FALSE, FALSE)
        ELSE IF ~is_text(inspect(k, SampleLen(k))) THEN Result(data, <<>>, FALSE, FALSE)
        ELSE IF env.kind = "cwd" THEN Result(data, <<>>, TRUE, TRUE)
        ELSE IF ~Decodes(k)
             THEN Result(Append(data, Write("open", label, <<>>, ai, file_path)),
                         <<Diag("decode_error", file_path)>>, FALSE, FALSE)
        ELSE WriteBlock(data, BlockWrites(label, Content(loc, data), ai, file_path),
                        env, file_path)

\* process_file(file_path, output): the document after the call, the
\* diagnostics it printed, whether it returned Err, and whether the
\* environment failed it
process_file(file_path, data, ai, env, a) ==
    LET loc == Resolve(file_path)
        k == AttrOf(loc, a)
        label == display_path(file_path)
    IN  IF ~k.open THEN Result(data, <<Diag("open_error", file_path)>>, FALSE, FALSE)
        ELSE IF ~k.read THEN Result(data, <<Diag("read_error", file_path)>>, FALSE, FALSE)
        ELSE IF ~is_text(inspect(k, SampleLen(k))) THEN Result(data, <<>>, FALSE, FALSE)
        ELSE IF env.kind = "cwd" THEN Result(data, <<>>, TRUE, TRUE)
        ELSE IF ~Decodes(k)
             THEN Result(data, <<Diag("decode_error", file_path)>>, FALSE, FALSE)
        ELSE WriteBlock(data, BlockWrites(label, Content(loc, data), ai, file_path),
                        env, file_path)

\* ------------------------------------------------------------------- state
ArgPaths ==
    { <<".">>, cwd \o <<"a.txt">>, cwd \o <<"..", "x", ".git", "c">>,
      <<"sub", ".git">>, <<"nope">>, <<"/", "x", "dev">> }

ArgLists == UNION { [1..n -> ArgPaths] : n \in 0..MaxArgs }

\* the complete blocks of a document, as (label, body) pairs
BlockSet(data) ==
    { <<data[i].label, data[i + 1].body>> : i \in
        { j \in 1..(Len(data) - 2) :
            /\ data[j].kind = "open"
            /\ data[j + 1].kind = "content"
            /\ data[j + 2].kind = "close" } }

Init ==
    /\ args \in ArgLists
    /\ aattr \in FileKinds
    /\ outFile \in { [exists |-> FALSE, data |-> <<>>],
                     [exists |-> TRUE, data |-> <<StaleWrite>>] }
    /\ pc = "start"
    /\ argi = 1
    /\ stack = <<>>
    /\ exit = -1
    /\ stderr = <<>>
    /\ stdout = <<>>
    /\ created = FALSE
    /\ envFails = 0
    /\ run = 1
    /\ docBefore = outFile

\* -------------------------------------------------------------------- main
MainUsage_CreateFirst ==
    /\ pc = "start"
    /\ args = <<>>
    /\ outFile' = [exists |-> TRUE, data |-> <<>>]
    /\ stderr' = Append(stderr, Diag("usage", <<>>))
    /\ exit' = 1
    /\ pc' = "done"
    /\ UNCHANGED <<args, aattr, argi, stack, stdout, created, envFails, run,
                   docBefore>>

\* no argument: the usage message and exit(1), before output.txt is touched
MainUsage ==
    /\ pc = "start"
    /\ args = <<>>
    /\ stderr' = Append(stderr, Diag("usage", <<>>))
    /\ exit' = 1
    /\ pc' = "done"
    /\ UNCHANGED <<args, aattr, outFile, argi, stack, stdout, created,
                   envFails, run, docBefore>>

\* File::create(output_file)? succeeds: output.txt exists and is empty
MainCreate ==
    /\ pc = "start"
    /\ args # <<>>
    /\ outFile' = [exists |-> TRUE, data |-> <<>>]
    /\ created' = TRUE
    /\ pc' = "args"
    /\ UNCHANGED <<args, aattr, argi, stack, exit, stderr, stdout, envFails,
                   run, docBefore>>

\* File::create(output_file)? fails: main returns the error, exit status 1
MainCreateFails ==
    /\ pc = "start"
    /\ args # <<>>
    /\ envFails < MaxEnvFailures
    /\ envFails' = envFails + 1
    /\ stderr' = Append(stderr, Diag("main_error", <<>>))
    /\ exit' = 1
    /\ pc' = "done"
    /\ UNCHANGED <<args, aattr, outFile, argi, stack, stdout, created, run,
                   docBefore>>

AtArg == pc = "args" /\ argi <= Len(args)

\* one call of process_file on p by the argument argi, the caller printing
\* the error the call returns and going on
CallProcessFile(p) ==
    \E env \in EnvOutcomes :
        LET r == process_file(p, outFile.data, argi, env, aattr) IN
        /\ env # EnvOk => (envFails < MaxEnvFailures /\ r.envfail)
        /\ outFile' = [outFile EXCEPT !.data = r.data]
        /\ stderr' = stderr \o r.diag
                       \o (IF r.err THEN <<Diag("file_error", p)>> ELSE <<>>)
        /\ envFails' = envFails + (IF r.envfail THEN 1 ELSE 0)

MainMissing_Stop ==
    /\ AtArg
    /\ ~exists(args[argi], outFile)
    /\ stderr' = Append(stderr, Diag("not_found", args[argi]))
    /\ argi' = Len(args) + 1
    /\ UNCHANGED <<args, aattr, outFile, pc, stack, exit, stdout, created,
                   envFails, run, docBefore>>

\* the path does not exist: a diagnostic, and the next argument
MainMissing ==
    /\ AtArg
    /\ ~exists(args[argi], outFile)
    /\ stderr' = Append(stderr, Diag("not_found", args[argi]))
    /\ argi' = argi + 1
    /\ UNCHANGED <<args, aattr, outFile, pc, stack, exit, stdout, created,
                   envFails, run, docBefore>>

\* a directory: process_directory starts the walk at the directory itself
\* (it has no path that returns Err, so the Err branch of main is never taken)
MainDir ==
    /\ AtArg
    /\ exists(args[argi], outFile)
    /\ is_dir(args[argi])
    /\ stack' = << {args[argi]} >>
    /\ pc' = "walk"
    /\ UNCHANGED <<args, aattr, outFile, argi, exit, stderr, stdout, created,
                   envFails, run, docBefore>>

MainFile_Propagate ==
    /\ AtArg
    /\ exists(args[argi], outFile)
    /\ ~is_dir(args[argi])
    /\ is_file(args[argi], outFile)
    /\ \E env \in EnvOutcomes :
        LET r == process_file(args[argi], outFile.data, argi, env, aattr) IN
        /\ env # EnvOk => (envFails < MaxEnvFailures /\ r.envfail)
        /\ outFile' = [outFile EXCEPT !.data = r.data]
        /\ stderr' = stderr \o r.diag
        /\ envFails' = envFails + (IF r.envfail THEN 1 ELSE 0)
        /\ IF r.err
           THEN pc' = "done" /\ exit' = 1 /\ argi' = argi
           ELSE pc' = pc /\ exit' = exit /\ argi' = argi + 1
    /\ UNCHANGED <<args, aattr, stack, stdout, created, run, docBefore>>

\* a regular file: process_file on the argument itself
MainFile ==
    /\ AtArg
    /\ exists(args[argi], outFile)
    /\ ~is_dir(args[argi])
    /\ is_file(args[argi], outFile)
    /\ CallProcessFile(args[argi])
    /\ argi' = argi + 1
    /\ UNCHANGED <<args, aattr, pc, stack, exit, stdout, created, run,
                   docBefore>>

\* neither a file nor a directory: a diagnostic, and the next argument
MainOther ==
    /\ AtArg
    /\ exists(args[argi], outFile)
    /\ ~is_dir(args[argi])
    /\ ~is_file(args[argi], outFile)
    /\ stderr' = Append(stderr, Diag("not_file_or_dir", args[argi]))
    /\ argi' = argi + 1
    /\ UNCHANGED <<args, aattr, outFile, pc, stack, exit, stdout, created,
                   envFails, run, docBefore>>

MainFinish_Quiet ==
    /\ pc = "args"
    /\ argi > Len(args)
    /\ stdout' = (IF outFile.data = <<>> THEN stdout ELSE Append(stdout, "written"))
    /\ exit' = 0
    /\ pc' = "done"
    /\ UNCHANGED <<args, aattr, outFile, argi, stack, stderr, created,
                   envFails, run, docBefore>>

\* after the last argument: the confirmation line, Ok(()), exit status 0
MainFinish ==
    /\ pc = "args"
    /\ argi > Len(args)
    /\ stdout' = Append(stdout, "written")
    /\ exit' = 0
    /\ pc' = "done"
    /\ UNCHANGED <<args, aattr, outFile, argi, stack, stderr, created,
                   envFails, run, docBefore>>

\* ------------------------------------------------------- process_directory
Walking == pc = "walk" /\ stack # <<>>

\* the listing on top of the stack is exhausted; with the last one the walk
\* ends, process_directory returns Ok(()) and main takes the next argument
WalkPop ==
    /\ Walking
    /\ Head(stack) = {}
    /\ stack' = Tail(stack)
    /\ IF Tail(stack) = <<>>
       THEN pc' = "args" /\ argi' = argi + 1
       ELSE pc' = pc /\ argi' = argi
    /\ UNCHANGED <<args, aattr, outFile, exit, stderr, stdout, created,
                   envFails, run, docBefore>>

\* filter_entry drops an excluded entry and does not descend into it
WalkSkip ==
    /\ Walking
    /\ \E e \in Head(stack) :
        /\ is_excluded(e)
        /\ stack' = <<Head(stack) \ {e}>> \o Tail(stack)
    /\ UNCHANGED <<args, aattr, outFile, pc, argi, exit, stderr, stdout,
                   created, envFails, run, docBefore>>

\* a directory is yielded (and skipped by the loop body); its listing is next
WalkDescend ==
    /\ Walking
    /\ \E e \in Head(stack) :
        /\ ~is_excluded(e)
        /\ is_dir(e)
        /\ stack' = <<Children(e, outFile), Head(stack) \ {e}>> \o Tail(stack)
    /\ UNCHANGED <<args, aattr, outFile, pc, argi, exit, stderr, stdout,
                   created, envFails, run, docBefore>>

\* any other entry goes to process_file
WalkFile ==
    /\ Walking
    /\ \E e \in Head(stack) :
        /\ ~is_excluded(e)
        /\ ~is_dir(e)
        /\ CallProcessFile(e)
        /\ stack' = <<Head(stack) \ {e}>> \o Tail(stack)
    /\ UNCHANGED <<args, aattr, pc, argi, exit, stdout, created, run,
                   docBefore>>

\* ------------------------------------------------------------ the next run
\* the program is started again with the same arguments on the same tree
Rerun ==
    /\ pc = "done"
    /\ run < MaxRuns
    /\ envFails = 0
    /\ run' = run + 1
    /\ docBefore' = outFile
    /\ pc' = "start"
    /\ argi' = 1
    /\ stack' = <<>>
    /\ exit' = -1
    /\ stderr' = <<>>
    /\ stdout' = <<>>
    /\ created' = FALSE
    /\ UNCHANGED <<args, aattr, outFile, envFails>>

Step ==
    \/ MainUsage
    \/ MainCreate
    \/ MainCreateFails
    \/ MainMissing
    \/ MainDir
    \/ MainFile
    \/ MainOther
    \/ MainFinish
    \/ WalkPop
    \/ WalkSkip
    \/ WalkDescend
    \/ WalkFile

Next == Step \/ Rerun

Spec == Init /\ [][Next]_vars

\* one run of the program: it is single-threaded, and a step that can be
\* taken is taken
FairSpec == Init /\ [][Step]_vars /\ WF_vars(Step)

\* ============================================================== properties
Done == pc = "done"
\* the run ended with status 0 and the environment failed nothing
CleanDone == Done /\ exit = 0 /\ envFails = 0

\* the writes this run made to output.txt
RunData == IF created THEN outFile.data ELSE <<>>

\* where the complete blocks of a document start
BlockStarts(data) ==
    { j \in 1..(Len(data) - 2) :
        /\ data[j].kind = "open"
        /\ data[j + 1].kind = "content"
        /\ data[j + 2].kind = "close" }

\* the blocks whose label names the file at loc
BlocksFor(loc, data) == { j \in BlockStarts(data) : Resolve(data[j].label) = loc }

HasGitSegment(p) == \E i \in 1..Len(p) : p[i] = ".git"

RECURSIVE WalkSet(_, _)
\* the paths a walk started at p hands to process_file
WalkSet(p, out) ==
    IF HasGitSegment(p) THEN {}
    ELSE IF is_dir(p) THEN UNION { WalkSet(c, out) : c \in Children(p, out) }
    ELSE {p}

\* the paths argument i hands to process_file, output.txt being there
ReachPaths(i) ==
    LET out == [exists |-> TRUE, data |-> <<>>] IN
    IF ~exists(args[i], out) THEN {}
    ELSE IF is_dir(args[i]) THEN WalkSet(args[i], out)
    ELSE IF is_file(args[i], out) THEN {args[i]}
    ELSE {}

\* how many times the run reaches the file at loc
ReachCount(loc) ==
    Cardinality({ x \in UNION { {<<i, q>> : q \in ReachPaths(i)} : i \in 1..Len(args) } :
                    Resolve(x[2]) = loc })

\* the first BufSize bytes of the file hold text, and the whole file is UTF-8
TextSample(k) ==
    /\ k.open /\ k.read
    /\ \/ k.bom \in {"utf8", "utf16le", "utf16be"}
       \/ k.bom = "none" /\ ~(k.nulAt > 0 /\ k.nulAt <= BufSize)
TextAndDecodes(k) == TextSample(k) /\ k.invalidAt = 0

AllLocs == StaticFileLocs \cup OtherLocs \cup {OutLoc}

\* ---------------------------------------------------------------------- C1
\* C1 as stated: after a run that met no failure, every reached file whose
\* sample is text and that decodes has exactly one block, whatever the
\* arguments are, and the body of the block is the content of the file.
C1_ExactlyOneBlock ==
    CleanDone =>
        \A loc \in AllLocs :
            (ReachCount(loc) >= 1 /\ TextAndDecodes(AttrOf(loc, aattr))) =>
                /\ Cardinality(BlocksFor(loc, RunData)) = 1
                /\ \A j \in BlocksFor(loc, RunData) :
                       loc # OutLoc => RunData[j + 1].body = Content(loc, <<>>)

\* C1 amended: after a run that met no failure, every file whose sample is
\* text and that decodes has one block for each time the run reached it (one
\* for each file argument naming it and one for each walk that visits it),
\* and the body of each block is the content process_file read: for
\* output.txt itself, what had been written before the block.
C1_OneBlockPerVisit ==
    CleanDone =>
        \A loc \in AllLocs :
            TextAndDecodes(AttrOf(loc, aattr)) =>
                /\ Cardinality(BlocksFor(loc, RunData)) = ReachCount(loc)
                /\ \A j \in BlocksFor(loc, RunData) :
                       RunData[j + 1].body =
                           IF loc = OutLoc THEN Flatten(SubSeq(RunData, 1, j - 1))
                           ELSE <<Data(FileId(loc))>>

C1_Witness ==
    /\ CleanDone
    /\ TextAndDecodes(aattr)
    /\ ReachCount(ALoc) = 2
    /\ Cardinality(BlocksFor(ALoc, RunData)) = 2
    /\ BlocksFor(OutLoc, RunData) # {}

\* ---------------------------------------------------------------------- C2
\* a file that process_file gives up on: it does not open, its sample does
\* not read, the sample is not text, or the file does not decode
GivesUp(p) == ~TextAndDecodes(AttrOf(Resolve(p), aattr))

\* C2: every write in the output document was made for an input file that
\* opened, whose sample read and was classified as text and which decoded,
\* and the label written names that file; a call of process_file on a file
\* that fails to open, fails the sample read, is not text or does not decode
\* leaves the output document exactly as it was.
C2_OnlyTextFiles ==
    /\ [](\A i \in 1..Len(RunData) :
            /\ RunData[i].kind \in {"open", "content", "close", "partial"}
            /\ ~GivesUp(RunData[i].path)
            /\ Resolve(RunData[i].label) = Resolve(RunData[i].path))
    /\ [][/\ (AtArg /\ exists(args[argi], outFile) /\ ~is_dir(args[argi])
                 /\ GivesUp(args[argi]))
               => outFile' = outFile
          /\ Walking =>
               \A e \in Head(stack) :
                   (/\ stack' = <<Head(stack) \ {e}>> \o Tail(stack)
                    /\ ~is_dir(e)
                    /\ GivesUp(e))
                   => outFile' = outFile]_vars

C2_Witness ==
    /\ Done
    /\ RunData # <<>>
    /\ \E i \in 1..Len(stderr) : stderr[i].msg = "decode_error"

\* ---------------------------------------------------------------------- C3
\* C3 as stated: no write in the output document was made for a file whose
\* path has a ".git" segment, however the file was reached.
C3_NoGitFile ==
    \A i \in 1..Len(RunData) : ~HasGitSegment(RunData[i].path)

\* C3 amended: a write made for a file whose path has a ".git" segment was
\* made for a file named directly as an argument; no walk of a directory
\* argument emits such a file, also when the path of the directory argument
\* itself has the segment.
C3_GitOnlyAsArgument ==
    \A i \in 1..Len(RunData) :
        HasGitSegment(RunData[i].path) =>
            /\ RunData[i].path = args[RunData[i].arg]
            /\ ~is_dir(args[RunData[i].arg])

C3_Witness ==
    /\ Done
    /\ \E i \in 1..Len(RunData) : HasGitSegment(RunData[i].path)
    /\ \E i \in 1..Len(args) : is_dir(args[i])

\* ---------------------------------------------------------------------- C4
\* C4: a run with no argument prints the usage message and ends with exit
\* status 1, and output.txt is neither created nor truncated nor written:
\* it is after the run what it was before.
C4_UsageLeavesOutput ==
    /\ [](Done /\ args = <<>> =>
            /\ exit = 1
            /\ ~created
            /\ outFile = docBefore
            /\ stdout = <<>>
            /\ stderr = <<Diag("usage", <<>>)>>)
    /\ [][(pc = "start" /\ args = <<>>) => (outFile' = outFile /\ pc' = "done")]_vars

C4_Witness ==
    /\ Done
    /\ args = <<>>
    /\ exit = 1
    /\ outFile = [exists |-> TRUE, data |-> <<StaleWrite>>]

\* ---------------------------------------------------------------------- C5
\* C5 as stated: a run with arguments ends with exit status 0 after having
\* attempted every argument, whatever fails after the argument check.
C5_AlwaysZero ==
    Done /\ args # <<>> => (exit = 0 /\ argi = Len(args) + 1)

\* C5 amended: once output.txt has been created, the run ends with exit
\* status 0 after having attempted every argument, whatever path is missing
\* or of the wrong kind and whatever open, read, decode, current-directory or
\* write failure occurs; a failure to create output.txt ends the run with
\* exit status 1 before any argument is attempted.
C5_ZeroOnceCreated ==
    Done /\ args # <<>> =>
        IF created
        THEN exit = 0 /\ argi = Len(args) + 1
        ELSE exit = 1 /\ argi = 1 /\ stdout = <<>>

C5_Witness ==
    /\ Done
    /\ exit = 0
    /\ Len(args) = 2
    /\ \E i \in 1..Len(stderr) : stderr[i].msg = "file_error" /\ stderr[i].path = args[1]
    /\ \E i \in 1..Len(RunData) : RunData[i].arg = 2

\* ---------------------------------------------------------------------- C6
\* C6 as stated: a run with arguments ends having printed exactly one
\* confirmation line.
C6_AlwaysConfirms ==
    Done /\ args # <<>> => stdout = <<"written">>

\* C6 amended: a run with arguments in which output.txt is created
\* terminates, and it ends having printed exactly one confirmation line,
\* after the last argument and after every diagnostic line, also when every
\* argument failed and output.txt is empty; a run in which output.txt cannot
\* be created ends without the confirmation line.
C6_ConfirmsOnceCreated ==
    /\ [](pc = "args" => <>Done)
    /\ [](Done /\ created => (stdout = <<"written">> /\ argi = Len(args) + 1))
    /\ [](~Done \/ ~created => stdout = <<>>)
    /\ [][stdout # <<>> /\ stdout' # <<>> => (stdout' = stdout /\ stderr' = stderr)]_vars

C6_Witness ==
    /\ Done
    /\ created
    /\ stdout = <<"written">>
    /\ outFile.data = <<>>
    /\ Len(args) = 2
    /\ Len(stderr) = 2

\* ---------------------------------------------------------------------- C7
\* an argument main dispatches: it exists and is a directory or a file
Dispatched(p) ==
    LET out == [exists |-> TRUE, data |-> <<>>] IN
    exists(p, out) /\ (is_dir(p) \/ is_file(p, out))

\* the bytes of a document: its writes without who made them
Shape(data) == [i \in 1..Len(data) |-> <<data[i].kind, data[i].label, data[i].body>>]

RECURSIVE RunFiles(_, _)
\* the document of a run, with no failure, on a list of arguments none of
\* which is a directory with a file to emit
RunFiles(list, data) ==
    IF list = <<>> THEN data
    ELSE RunFiles(Tail(list),
                  IF is_dir(Head(list)) THEN data
                  ELSE process_file(Head(list), data, 0, EnvOk, aattr).data)

NoWalkEmits ==
    \A i \in 1..Len(args) :
        is_dir(args[i]) => WalkSet(args[i], [exists |-> TRUE, data |-> <<>>]) = {}

\* output.txt after a run, with no failure, on such a list, where before is
\* what output.txt was when the run started: a run on no argument leaves
\* it as it was
FinalOf(list, before) ==
    IF list = <<>> THEN [exists |-> before.exists, data |-> Shape(before.data)]
    ELSE [exists |-> TRUE, data |-> Shape(RunFiles(list, <<>>))]

\* C7 as stated: the final document of a run is the one of the run on the
\* same list without the arguments that do not exist or are neither a file
\* nor a directory.
C7_SameAsWithout ==
    CleanDone /\ NoWalkEmits =>
        [exists |-> outFile.exists, data |-> Shape(outFile.data)]
            = FinalOf(SelectSeq(args, Dispatched), docBefore)

\* C7 amended: an argument that does not exist, or is neither a file nor a
\* directory, gets one diagnostic naming it, leaves the output document
\* unchanged and is followed by the next argument; when at least one other
\* argument remains, the final document is the one of the run on the list
\* without these arguments, and when none remains the run leaves output.txt
\* created and empty (the run on no argument would not touch it).
C7_SkippedArgument ==
    /\ [][(AtArg /\ ~Dispatched(args[argi])) =>
            /\ outFile' = outFile
            /\ argi' = argi + 1
            /\ pc' = "args"
            /\ exit' = exit
            /\ stdout' = stdout
            /\ Len(stderr') = Len(stderr) + 1
            /\ stderr'[Len(stderr')].path = args[argi]]_vars
    /\ [](CleanDone /\ NoWalkEmits =>
            LET kept == SelectSeq(args, Dispatched) IN
            [exists |-> outFile.exists, data |-> Shape(outFile.data)]
                = IF kept = <<>> THEN [exists |-> TRUE, data |-> <<>>]
                  ELSE FinalOf(kept, docBefore))

C7_Witness ==
    /\ CleanDone
    /\ Len(args) = 2
    /\ ~Dispatched(args[1])
    /\ Dispatched(args[2])
    /\ Len(stderr) = 1
    /\ RunData # <<>>

\* ---------------------------------------------------------------------- C8
\* write j+1 continues the block of write j with one of the kinds K
NextIs(data, j, K) ==
    /\ j < Len(data)
    /\ data[j + 1].kind \in K
    /\ data[j + 1].arg = data[j].arg
    /\ data[j + 1].path = data[j].path
    /\ data[j + 1].label = data[j].label

\* the writes after which a block was given up
Truncated(data) ==
    { j \in 1..Len(data) :
        \/ data[j].kind = "partial"
        \/ data[j].kind = "open" /\ ~NextIs(data, j, {"content", "partial"})
        \/ data[j].kind = "content" /\ ~NextIs(data, j, {"close", "partial"}) }

\* C8: between two calls of process_file the output document is a sequence
\* of blocks, each the opening tag, the content and the closing tag with its
\* blank line, in that order and from one call, the blocks of an argument
\* before those of every later argument; a block is cut short only where a
\* write failed, nothing written is ever taken back, and the run goes on to
\* its end.
C8_BlocksInOrder ==
    /\ [](/\ \A j \in 1..Len(RunData) :
               /\ RunData[j].kind = "content" =>
                      (j > 1 /\ RunData[j - 1].kind = "open" /\ NextIs(RunData, j - 1, {"content"}))
               /\ RunData[j].kind = "close" =>
                      (j > 1 /\ RunData[j - 1].kind = "content" /\ NextIs(RunData, j - 1, {"close"}))
               /\ \A i \in 1..j : RunData[i].arg <= RunData[j].arg
          /\ Cardinality(Truncated(RunData)) <= envFails
          /\ envFails = 0 => Len(RunData) = 3 * Cardinality(BlockStarts(RunData))
          /\ Done /\ created => exit = 0)
    /\ [][created /\ created' => StartsWith(outFile'.data, outFile.data)]_vars

C8_Witness ==
    /\ Done
    /\ envFails = 0
    /\ Len(RunData) >= 6
    /\ RunData[1].arg < RunData[Len(RunData)].arg
    /\ RunData[1].kind = "open"
    /\ RunData[Len(RunData)].kind = "close"

\* ---------------------------------------------------------------------- C9
\* C9: a second run with the same arguments on the unchanged tree, neither
\* run meeting a failure, leaves in output.txt the same set of (label, body)
\* blocks as the run before, whatever order the walks take.
C9_SameBlocks ==
    (run >= 2 /\ CleanDone) => BlockSet(RunData) = BlockSet(docBefore.data)

\* --------------------------------------------------------------------- C10
Rest(p, base) == SubSeq(p, Len(base) + 1, Len(p))

\* C10 as stated: the label of a file below the working directory is a
\* path relative to that directory, and the label of any other file is the
\* path process_file was given.
C10_RelativeIfDescendant ==
    \A i \in 1..Len(RunData) :
        LET w == RunData[i]
            loc == Resolve(w.path)
        IN  IF StartsWith(loc, cwd)
            THEN ~IsAbsolute(w.label) /\ Resolve(w.label) = loc
            ELSE w.label = w.path

\* C10 amended: the label is the path process_file was given without the
\* components of the working directory when the path starts with them,
\* component by component and with no ".." resolved, and is that path
\* unchanged otherwise; the closing tag of a block carries the label of its
\* opening tag.
C10_LexicalPrefix ==
    \A i \in 1..Len(RunData) :
        LET w == RunData[i] IN
        /\ w.label = IF StartsWith(w.path, cwd) THEN Rest(w.path, cwd) ELSE w.path
        /\ w.kind = "close" =>
               (i > 2 /\ RunData[i - 2].kind = "open" /\ RunData[i - 2].label = w.label)

C10_Witness ==
    /\ Done
    /\ \E i \in 1..Len(RunData) :
           /\ RunData[i].kind = "close"
           /\ RunData[i].path = cwd \o <<"a.txt">>
           /\ RunData[i].label = <<"a.txt">>
    /\ \E i \in 1..Len(RunData) :
           /\ RunData[i].kind = "close"
           /\ RunData[i].path = <<".", "a.txt">>
           /\ RunData[i].label = <<".", "a.txt">>

====
